---- MODULE Spec2Model ----
(***************************************************************************)
(* Model of v2/pool.go: connPool (the bounded pool, a mutex + condition    *)
(* variable guarding an idle list and a live count) and singleConnPool     *)
(* (the adapter pinning one connection of an underlying pool).             *)
(*                                                                         *)
(* Every critical section of connPool (a stretch of code that runs with    *)
(* p.cond.L held and does not wait) is one action.  connPool.Get is cut    *)
(* at cond.Wait, connPool.Remove at the lock it takes after closeConn.     *)
(* singleConnPool's RWMutex is the variable l: it is held across the       *)
(* calls into the underlying pool, which may wait.                         *)
(***************************************************************************)
EXTENDS Integers, Sequences, FiniteSets, Bags, TLC

\* ---- bounds -------------------------------------------------------------
NumCallers == 3          \* goroutines using the pool
MaxConns   == 4          \* *conn objects alive at one time
MaxMaxSize == 3          \* maxSize is drawn from 1..MaxMaxSize
MaxTime    == 2          \* the clock runs from 0 to MaxTime
Timeout    == 1          \* the positive idleTimeout that Init may choose

ConnIds == 1..MaxConns
Nil     == 0             \* Go's nil *conn

VARIABLES
    maxSize,      \* connPool.maxSize
    idleTimeout,  \* connPool.idleTimeout
    reusable,     \* singleConnPool.reusable
    conns,        \* connPool.conns: the idle list, front first
    size,         \* connPool.size
    UsedAt,       \* conn.UsedAt of the connections in the idle list
    now,          \* time.Now()
    gs,           \* the goroutines: a bag of their local states
    cn,           \* singleConnPool.cn
    ret,          \* what the call that returned in the last step returned
                  \* (cn: by singleConnPool.Get; connPool.Get's is in held)
    panicked,     \* a panic("p.cn != cn") ended the process
    closed        \* the connections that the last step closed (closeConn
                  \* returned nil for them)

vars == <<maxSize, idleTimeout, reusable, conns, size, UsedAt, now, gs, cn,
          ret, panicked, closed>>

config == <<maxSize, idleTimeout, reusable>>

\* ---- helpers ------------------------------------------------------------
Range(s) == {s[i] : i \in 1..Len(s)}

RemoveAt(s, i) == SubSeq(s, 1, i - 1) \o SubSeq(s, i + 1, Len(s))

NoRet == [op |-> "none", cn |-> Nil, isNew |-> FALSE, err |-> FALSE]

Return(op, x, isNew, e) == [op |-> op, cn |-> x, isNew |-> isNew, err |-> e]

\* A goroutine's local state.  Goroutines have no identity in the code, so
\* the model keeps the bag of their states.
\*   pc    where it is: "idle" (in no call), "waiting" (in cond.Wait),
\*         "woken" (cond.Wait is returning), "removing" (in connPool.Remove,
\*         after closeConn), "slow" and "fast" (in singleConnPool.Get, after
\*         RUnlock)
\*   held  the *conn it checked out of connPool itself (Nil: none)
\*   err   connPool.Remove's local err, between closeConn and Lock
\*   lock  it holds singleConnPool.l for writing
\*   seen  in "fast": the p.cn it saw under the read lock
Goroutine(p, h, e, k, x) ==
    [pc |-> p, held |-> h, err |-> e, lock |-> k, seen |-> x]

Fresh == Goroutine("idle", Nil, FALSE, FALSE, Nil)

Gs == BagToSet(gs)

\* the bag b with one goroutine in state g now in state h
Move(b, g, h) == (b (-) SetToBag({g})) (+) SetToBag({h})

\* how many goroutines are at pc p
NumAt(p) ==
    LET at == {g \in Gs : g.pc = p}
        RECURSIVE Sum(_)
        Sum(S) == IF S = {} THEN 0
                  ELSE LET g == CHOOSE h \in S : TRUE
                       IN CopiesIn(g, gs) + Sum(S \ {g})
    IN Sum(at)

NumWaiting == NumAt("waiting")
NumWoken == NumAt("woken")

\* the connections checked out of connPool by goroutines
Held == {g.held : g \in Gs} \ {Nil}

\* The *conn objects something still refers to.
Referenced ==
    Range(conns) \cup {g.held : g \in Gs} \cup {g.seen : g \in Gs} \cup {cn, ret.cn}

\* ---- connPool ------------------------------------------------------------
\* newConnPool, newSingleConnPool(pool, nil, reusable)
Init ==
    /\ maxSize \in 1..MaxMaxSize
    /\ idleTimeout \in {0, Timeout}
    /\ reusable \in BOOLEAN
    /\ conns = << >>
    /\ size = 0
    /\ UsedAt = [x \in ConnIds |-> 0]
    /\ now = 0
    /\ gs = [g \in {Fresh} |-> NumCallers]
    /\ cn = Nil
    /\ ret = NoRet
    /\ panicked = FALSE
    /\ closed = {}

\* Get's loop condition: for p.conns.Len() == 0 && p.size >= p.maxSize
MustWait == Len(conns) = 0 /\ size >= maxSize

\* time.Since(cn.UsedAt) > p.idleTimeout
Expired(x) == now - UsedAt[x] > idleTimeout

\* for e := p.conns.Front(); e != nil; e = e.Next(): container/list's Remove(e)
\* sets e.next to nil, so e.Next() is nil after the first removal and the
\* loop ends there.
RECURSIVE SweepFrom(_, _)
SweepFrom(s, i) ==
    IF i > Len(s) THEN s
    ELSE IF Expired(s[i]) THEN RemoveAt(s, i)
    ELSE SweepFrom(s, i + 1)

Sweep(s) == IF idleTimeout > 0 THEN SweepFrom(s, 1) ELSE s

\* newConn: a *conn nothing refers to yet
FreeConns == ConnIds \ Referenced
NewConn == CHOOSE x \in FreeConns : \A y \in FreeConns : x <= y

\* a Get that leaves the element it returns in the list
PopFrontKeep(s) == s

\* elem := p.conns.Front(); p.conns.Remove(elem)
PopFront(s) == Tail(s)

\* a Get that counts the connection before it looks at the dial error
DialFailedCounted(s) ==
    [conns |-> s, size |-> size + 1, cn |-> Nil, isNew |-> FALSE, err |-> TRUE]

\* rw, err := p.dial() with err != nil: return nil, false, err
DialFailed(s) ==
    [conns |-> s, size |-> size, cn |-> Nil, isNew |-> FALSE, err |-> TRUE]

\* rw, err := p.dial() with err == nil: p.size++; return newConn(rw, ...), true, nil
Dialed(s) ==
    [conns |-> s, size |-> size + 1, cn |-> NewConn, isNew |-> TRUE, err |-> FALSE]

\* return elem.Value.(*conn), false, nil
Reused(s) ==
    [conns |-> PopFront(s), size |-> size, cn |-> Head(s), isNew |-> FALSE,
     err |-> FALSE]

\* What Get does once its loop is over: the sweep, then a dial or a pop.
\* p.dial() may fail at any call (it does when MaxConns objects are alive).
GetOutcomes ==
    LET s == Sweep(conns) IN
    IF Len(s) = 0
    THEN {DialFailed(s)} \cup (IF FreeConns = {} THEN {} ELSE {Dialed(s)})
    ELSE {Reused(s)}

\* UsedAt is read only of the connections in the idle list, each stamped by
\* the Put that pushed it: the model keeps no stamp of the others.
Stamps(s, u) == [x \in ConnIds |-> IF x \in Range(s) THEN u[x] ELSE 0]

\* p.cond.Broadcast() instead: wakes every goroutine waiting in cond.Wait
Broadcast(b) ==
    LET W == {g \in BagToSet(b) : g.pc = "waiting"}
        woken == [g \in {[w EXCEPT !.pc = "woken"] : w \in W} |->
                     CopiesIn([g EXCEPT !.pc = "waiting"], b)]
        rest == [g \in BagToSet(b) \ W |-> CopiesIn(g, b)]
    IN {rest (+) woken}

\* p.cond.Signal() on the goroutines b: wakes one goroutine waiting in
\* cond.Wait, if there is one
Signal(b) ==
    LET W == {g \in BagToSet(b) : g.pc = "waiting"} IN
    IF W = {} THEN {b}
    ELSE {Move(b, w, [w EXCEPT !.pc = "woken"]) : w \in W}

\* a Put that appends to the list: p.conns.PushBack(cn)
PushBack(s, x) == s \o <<x>>

\* p.conns.PushFront(cn)
PushFront(s, x) == <<x>> \o s

\* a Remove that gives back two slots: p.size -= 2
DecrementTwice(n) == n - 2

\* p.size--
Decrement(n) == n - 1

\* The part of connPool.Get after the loop, called by g itself.
GetFinish(g) ==
    \E o \in GetOutcomes :
        /\ conns' = o.conns
        /\ size' = o.size
        /\ UsedAt' = Stamps(o.conns, UsedAt)
        /\ gs' = Move(gs, g, [g EXCEPT !.pc = "idle", !.held = o.cn])
        /\ ret' = Return("Get", Nil, o.isNew, o.err)
        /\ UNCHANGED <<config, now, cn, panicked>>
        /\ closed' = {}

\* cond.Wait()
GetWait(g) ==
    /\ gs' = Move(gs, g, [g EXCEPT !.pc = "waiting"])
    /\ ret' = NoRet
    /\ UNCHANGED <<config, conns, size, UsedAt, now, cn, panicked>>
    /\ closed' = {}

\* connPool.Get, from Lock to its return or to cond.Wait.  A goroutine has
\* one connection of the pool checked out at a time.
Get(g) ==
    /\ ~panicked
    /\ g.pc = "idle" /\ g.held = Nil /\ ~g.lock
    /\ IF MustWait THEN GetWait(g) ELSE GetFinish(g)

\* connPool.Get, from the return of cond.Wait
GetResume(g) ==
    /\ ~panicked
    /\ g.pc = "woken" /\ ~g.lock
    /\ IF MustWait THEN GetWait(g) ELSE GetFinish(g)

\* connPool.Put
Put(g) ==
    /\ ~panicked
    /\ g.pc = "idle" /\ g.held # Nil
    /\ UsedAt' = [UsedAt EXCEPT ![g.held] = now]
    /\ conns' = PushFront(conns, g.held)
    /\ gs' \in Signal(Move(gs, g, [g EXCEPT !.held = Nil]))
    /\ ret' = Return("Put", Nil, FALSE, FALSE)
    /\ UNCHANGED <<config, size, now, cn, panicked>>
    /\ closed' = {}

\* connPool.Remove up to p.cond.L.Lock(): err = p.closeConn(cn), which may fail
RemoveClose(g) ==
    /\ ~panicked
    /\ g.pc = "idle" /\ g.held # Nil
    /\ ret' = NoRet
    /\ UNCHANGED <<config, conns, size, UsedAt, now, cn, panicked>>
    /\ \E e \in BOOLEAN :
        /\ gs' = Move(gs, g, [g EXCEPT !.pc = "removing", !.err = e])
        /\ closed' = IF e THEN {} ELSE {g.held}

\* a Remove that returns the close error before it takes the lock
RemoveFinishOnSuccess(g) ==
    /\ ~panicked
    /\ g.pc = "removing" /\ ~g.lock
    /\ size' = IF g.err THEN size ELSE Decrement(size)
    /\ LET b == Move(gs, g, [g EXCEPT !.pc = "idle", !.held = Nil, !.err = FALSE])
       IN gs' \in IF g.err THEN {b} ELSE Signal(b)
    /\ ret' = Return("Remove", Nil, FALSE, g.err)
    /\ UNCHANGED <<config, conns, UsedAt, now, cn, panicked>>
    /\ closed' = {}

\* connPool.Remove from p.cond.L.Lock() on
RemoveFinish(g) ==
    /\ ~panicked
    /\ g.pc = "removing" /\ ~g.lock
    /\ size' = Decrement(size)
    /\ gs' \in Signal(Move(gs, g, [g EXCEPT !.pc = "idle", !.held = Nil, !.err = FALSE]))
    /\ ret' = Return("Remove", Nil, FALSE, g.err)
    /\ UNCHANGED <<config, conns, UsedAt, now, cn, panicked>>
    /\ closed' = {}

\* a Close that leaves the count alone
SizeAfterCloseKept == size

\* p.size = 0
SizeAfterClose == 0

\* A Close that goes on to the next element when a closeConn fails.
ClosedPastFailure(k) == Range(conns) \ {conns[i] : i \in {k + 1} \cap DOMAIN conns}

\* the loop of Close returns at the first closeConn that fails, the k+1-th:
\* closeConn has returned nil for the k elements before it
ClosedBefore(k) == {conns[i] : i \in 1..k}

\* a Close that ends with p.cond.Broadcast()
WokenByCloseAll(b) == Broadcast(b)

\* the goroutines b after Close: Close calls neither p.cond.Signal nor
\* p.cond.Broadcast
WokenByClose(b) == {b}

\* connPool.Close: closeConn on the idle connections in list order; the k+1-th
\* close fails (k < Len), or none does (k = Len).
Close(g) ==
    /\ ~panicked
    /\ g.pc = "idle" /\ ~g.lock
    /\ gs' \in WokenByClose(gs)
    /\ UNCHANGED <<config, now, cn, panicked>>
    /\ \E k \in 0..Len(conns) :
        /\ IF k < Len(conns)
           THEN /\ ret' = Return("Close", Nil, FALSE, TRUE)
                /\ UNCHANGED <<conns, size>>
           ELSE /\ ret' = Return("Close", Nil, FALSE, FALSE)
                /\ conns' = << >>
                /\ size' = SizeAfterClose
        /\ UsedAt' = Stamps(conns', UsedAt)
        /\ closed' = ClosedBefore(k)

\* time passes (the clock is read only by Put's stamp and by Get's sweep)
Tick ==
    /\ ~panicked
    /\ idleTimeout > 0
    /\ now < MaxTime
    /\ now' = now + 1
    /\ ret' = NoRet
    /\ UNCHANGED <<config, conns, size, UsedAt, gs, cn, panicked>>
    /\ closed' = {}

PoolNext ==
    \/ \E g \in Gs : Get(g)
    \/ \E g \in Gs : GetResume(g)
    \/ \E g \in Gs : Put(g)
    \/ \E g \in Gs : RemoveClose(g)
    \/ \E g \in Gs : RemoveFinish(g)
    \/ \E g \in Gs : Close(g)
    \/ Tick

\* ---- singleConnPool -------------------------------------------------------
\* A goroutine calls the adapter while it holds no connection of its own.
\* p.l is held for writing by some goroutine
Locked == \E g \in Gs : g.lock

\* singleConnPool.Get up to the RUnlock of either branch
SingleGet(g) ==
    /\ ~panicked
    /\ g.pc = "idle" /\ g.held = Nil /\ ~Locked
    /\ gs' = Move(gs, g, IF cn # Nil THEN [g EXCEPT !.pc = "fast", !.seen = cn]
                                     ELSE [g EXCEPT !.pc = "slow"])
    /\ ret' = NoRet
    /\ UNCHANGED <<config, conns, size, UsedAt, now, cn, panicked>>
    /\ closed' = {}

\* return p.cn, false, nil: p.cn is read again, with no lock held.  The read
\* races with the writes of Get, Remove and Close: it yields the value seen
\* under the read lock or the one p.cn has now.
SingleGetFast(g) ==
    /\ ~panicked
    /\ g.pc = "fast"
    /\ \E x \in {g.seen, cn} : ret' = Return("SingleGet", x, FALSE, FALSE)
    /\ gs' = Move(gs, g, [g EXCEPT !.pc = "idle", !.seen = Nil])
    /\ UNCHANGED <<config, conns, size, UsedAt, now, cn, panicked>>
    /\ closed' = {}

\* cn, isNew, err := p.pool.Get() returned, in singleConnPool.Get
SingleGetFinish(g) ==
    \E o \in GetOutcomes :
        /\ conns' = o.conns
        /\ size' = o.size
        /\ UsedAt' = Stamps(o.conns, UsedAt)
        /\ cn' = IF o.err THEN cn ELSE o.cn
        /\ gs' = Move(gs, g, [g EXCEPT !.pc = "idle", !.lock = FALSE])
        /\ ret' = Return("SingleGet", o.cn, o.isNew, o.err)
        /\ UNCHANGED <<config, now, panicked>>
        /\ closed' = {}

\* cond.Wait() in the p.pool.Get() of singleConnPool.Get: p.l stays locked
SingleGetWait(g) ==
    /\ gs' = Move(gs, g, [g EXCEPT !.pc = "waiting", !.lock = TRUE])
    /\ ret' = NoRet
    /\ UNCHANGED <<config, conns, size, UsedAt, now, cn, panicked>>
    /\ closed' = {}

\* singleConnPool.Get from p.l.Lock() on: p.cn is not looked at again
SingleGetSlow(g) ==
    /\ ~panicked
    /\ g.pc = "slow" /\ ~Locked
    /\ IF MustWait THEN SingleGetWait(g) ELSE SingleGetFinish(g)

\* singleConnPool.Get, from the return of cond.Wait in p.pool.Get()
SingleGetResume(g) ==
    /\ ~panicked
    /\ g.pc = "woken" /\ g.lock
    /\ IF MustWait THEN SingleGetWait(g) ELSE SingleGetFinish(g)

\* a test that lets a nil argument through
ForeignNonNil(x) == cn # x /\ x # Nil

\* if p.cn != cn { panic("p.cn != cn") }
Foreign(x) == cn # x

\* singleConnPool.Put(x)
SinglePut(g, x) ==
    /\ ~panicked
    /\ g.pc = "idle" /\ g.held = Nil /\ ~Locked
    /\ IF Foreign(x)
       THEN panicked' = TRUE /\ ret' = Return("panic", x, FALSE, FALSE)
       ELSE panicked' = FALSE /\ ret' = Return("SinglePut", x, FALSE, FALSE)
    /\ UNCHANGED <<config, conns, size, UsedAt, now, gs, cn>>
    /\ closed' = {}

\* singleConnPool.Remove(x)
SingleRemove(g, x) ==
    /\ ~panicked
    /\ g.pc = "idle" /\ g.held = Nil /\ ~Locked
    /\ IF Foreign(x)
       THEN panicked' = TRUE /\ cn' = cn /\ ret' = Return("panic", x, FALSE, FALSE)
       ELSE panicked' = FALSE /\ cn' = Nil /\ ret' = Return("SingleRemove", x, FALSE, FALSE)
    /\ UNCHANGED <<config, conns, size, UsedAt, now, gs>>
    /\ closed' = {}

\* singleConnPool.Len
SingleLen == IF cn = Nil THEN 0 ELSE 1

\* connPool.Len, connPool.Size
PoolLen == Len(conns)
PoolSize == size

\* singleConnPool.Close: to its return, or into p.pool.Remove(p.cn) up to the
\* p.cond.L.Lock() there
SingleClose(g) ==
    /\ ~panicked
    /\ g.pc = "idle" /\ g.held = Nil /\ ~Locked
    /\ IF cn = Nil
       THEN /\ ret' = Return("SingleClose", Nil, FALSE, FALSE)
            /\ UNCHANGED <<conns, UsedAt, gs, cn>>
            /\ closed' = {}
       ELSE IF reusable
       THEN /\ UsedAt' = [UsedAt EXCEPT ![cn] = now]
            /\ conns' = PushFront(conns, cn)
            /\ gs' \in Signal(gs)
            /\ cn' = Nil
            /\ ret' = Return("SingleClose", Nil, FALSE, FALSE)
            /\ closed' = {}
       ELSE /\ ret' = NoRet
            /\ UNCHANGED <<conns, UsedAt, cn>>
            /\ \E e \in BOOLEAN :
                /\ gs' = Move(gs, g, [g EXCEPT !.pc = "removing", !.err = e,
                                                !.lock = TRUE])
                /\ closed' = IF e THEN {} ELSE {cn}
    /\ UNCHANGED <<config, size, now, panicked>>

\* a Close that returns the release error before it clears p.cn
SingleCloseFinishKeep(g) ==
    /\ ~panicked
    /\ g.pc = "removing" /\ g.lock
    /\ size' = Decrement(size)
    /\ gs' \in Signal(Move(gs, g, [g EXCEPT !.pc = "idle", !.err = FALSE, !.lock = FALSE]))
    /\ cn' = IF g.err THEN cn ELSE Nil
    /\ ret' = Return("SingleClose", Nil, FALSE, g.err)
    /\ UNCHANGED <<config, conns, UsedAt, now, panicked>>
    /\ closed' = {}

\* singleConnPool.Close from the p.cond.L.Lock() of p.pool.Remove(p.cn) on
SingleCloseFinish(g) ==
    /\ ~panicked
    /\ g.pc = "removing" /\ g.lock
    /\ size' = Decrement(size)
    /\ gs' \in Signal(Move(gs, g, [g EXCEPT !.pc = "idle", !.err = FALSE, !.lock = FALSE]))
    /\ cn' = Nil
    /\ ret' = Return("SingleClose", Nil, FALSE, g.err)
    /\ UNCHANGED <<config, conns, UsedAt, now, panicked>>
    /\ closed' = {}

SingleNext ==
    \/ \E g \in Gs : SingleGet(g)
    \/ \E g \in Gs : SingleGetFast(g)
    \/ \E g \in Gs : SingleGetSlow(g)
    \/ \E g \in Gs : SingleGetResume(g)
    \/ \E g \in Gs, x \in Referenced \cup {Nil} : SinglePut(g, x)
    \/ \E g \in Gs, x \in Referenced \cup {Nil} : SingleRemove(g, x)
    \/ \E g \in Gs : SingleClose(g)
    \/ \E g \in Gs : SingleCloseFinish(g)

Next == PoolNext \/ SingleNext

Spec == Init /\ [][Next]_vars

\* The adapter over a pool that other goroutines Get from and Put to, with
\* idleTimeout = 0.
InitSingle == Init /\ idleTimeout = 0

SingleUseNext ==
    \/ \E g \in Gs : Get(g)
    \/ \E g \in Gs : GetResume(g)
    \/ \E g \in Gs : Put(g)
    \/ SingleNext

SpecSingle == InitSingle /\ [][SingleUseNext]_vars

\* The pool alone: the adapter is never used, its flag is fixed.
InitPool == Init /\ reusable = TRUE

SpecPool == InitPool /\ [][PoolNext]_vars

\* The pool on which Close is never called.  The Go scheduler runs a goroutine
\* that cond.Signal has made runnable, and one that asks for p.cond.L gets it;
\* a caller that holds a connection puts or removes it in the end.  Whether a
\* goroutine calls Get again is up to the caller.
OpenNext ==
    \/ \E g \in Gs : Get(g)
    \/ \E g \in Gs : GetResume(g)
    \/ \E g \in Gs : Put(g)
    \/ \E g \in Gs : RemoveClose(g)
    \/ \E g \in Gs : RemoveFinish(g)
    \/ Tick

Fairness ==
    /\ WF_vars(\E g \in Gs : GetResume(g))
    /\ WF_vars(\E g \in Gs : RemoveFinish(g))
    /\ WF_vars(\E g \in Gs : Put(g) \/ RemoveClose(g))

SpecOpen == InitPool /\ [][OpenNext]_vars /\ Fairness

\* ---- claims --------------------------------------------------------------

\* C1: liveCount (size) never exceeds maxLiveCount (maxSize), whatever the
\* configuration and the interleaving of Get, Put and Remove.
C1_SizeWithinMax == size <= maxSize

\* C2: the idle list is never longer than liveCount, for callers that Put or
\* Remove only what Get gave them, each at most once, Close included.
C2_LenWithinSize == Len(conns) <= size

\* C3: no connection is both idle and checked out, none is twice in the idle
\* list, and none is checked out by two goroutines at once.
C3_Exclusive ==
    /\ \A i, j \in 1..Len(conns) : i # j => conns[i] # conns[j]
    /\ \A g \in Gs : g.held # Nil =>
          /\ g.held \notin Range(conns)
          /\ CopiesIn(g, gs) = 1
          /\ \A h \in Gs : h # g => h.held # g.held

\* C3's case: a connection is reused by one goroutine while another goroutine
\* holds a second connection and a third one is idle.
C3_Witness ==
    /\ ret.op = "Get" /\ ~ret.isNew /\ ~ret.err
    /\ Cardinality(Held) = 2
    /\ Len(conns) = 1

\* C4: with idleTimeout = 0, a Get on a pool below its maximum does not wait
\* and a Get that finds no idle connection returns a newly dialed one; a Get
\* on a saturated pool waits; it stops waiting only by a Put or a Remove, and
\* each Put or Remove lets exactly one waiting Get through cond.Wait, which
\* then returns if what was released is still there.
C4_Saturation ==
    [][idleTimeout = 0 =>
        \* a Get starts (or goes back to) waiting only on a saturated pool
        /\ NumWaiting' + NumWoken' > NumWaiting + NumWoken =>
               Len(conns) = 0 /\ size >= maxSize
        /\ NumWoken' < NumWoken /\ NumWaiting' > NumWaiting =>
               Len(conns) = 0 /\ size >= maxSize
        \* and never returns from one
        /\ ret'.op = "Get" => ~(Len(conns) = 0 /\ size >= maxSize)
        \* with nothing idle, what Get returns is newly dialed
        /\ ret'.op = "Get" /\ ~ret'.err /\ Len(conns) = 0 =>
               ret'.isNew /\ size < maxSize /\ size' = size + 1
        \* a waiting Get is let through by a Put or a Remove only
        /\ NumWoken' > NumWoken => ret'.op \in {"Put", "Remove"}
        /\ NumWaiting' < NumWaiting => ret'.op \in {"Put", "Remove"}
        \* and each of these lets exactly one through, if one waits
        /\ ret'.op \in {"Put", "Remove"} =>
               IF NumWaiting > 0
               THEN NumWaiting' = NumWaiting - 1 /\ NumWoken' = NumWoken + 1
               ELSE NumWaiting' = 0 /\ NumWoken' = NumWoken
        \* the Get let through returns, unless the pool is saturated again
        /\ NumWoken' < NumWoken /\ ~(Len(conns) = 0 /\ size >= maxSize) =>
               ret'.op = "Get" /\ NumWaiting' = NumWaiting
    ]_vars

\* C4's case: maxSize = 1 and three Gets: one returned a new connection, two
\* waited; after the Put of that connection one of the two has returned with
\* it and the other still waits.
C4_Witness ==
    /\ idleTimeout = 0 /\ maxSize = 1 /\ size = 1
    /\ ret.op = "Get" /\ ~ret.isNew /\ ~ret.err
    /\ NumWaiting = 1 /\ NumWoken = 0
    /\ CopiesIn(Fresh, gs) = 1

\* C5 as claimed: when the dial fails in Get, the idle list (contents and
\* order) and liveCount are as they were before the call and no waiter is
\* signaled, expired idle entries included.
C5_DialFailureChangesNothing ==
    [][ret'.op = "Get" /\ ret'.err =>
        /\ conns' = conns
        /\ size' = size
        /\ NumWaiting' = NumWaiting
        /\ NumWoken' <= NumWoken
    ]_vars

\* C5 as amended: when the dial fails in Get, liveCount is as it was, no
\* waiter is signaled and no goroutine gets a connection; the idle list is as
\* it was unless idleTimeout > 0 and it held one, expired, entry: the sweep
\* of that Get has removed it and the list is empty.
C5_DialFailure ==
    [][ret'.op = "Get" /\ ret'.err =>
        /\ size' = size
        /\ NumWaiting' = NumWaiting
        /\ NumWoken' <= NumWoken
        /\ Held' = Held
        /\ conns' = << >>
        /\ conns' # conns =>
               idleTimeout > 0 /\ Len(conns) = 1 /\ Expired(conns[1])
    ]_vars

\* C5's case: the dial of a Get that a Remove had let through fails, while
\* another Get still waits and the pool is below its maximum.
C5_Witness ==
    /\ ret.op = "Get" /\ ret.err
    /\ NumWaiting = 1
    /\ size < maxSize

\* C6: with idleTimeout > 0, after a Get has returned no connection idle for
\* longer than idleTimeout is in the idle list, however many there were, and
\* a connection idle for less is not evicted (it stays, or is the one returned).
C6_ExpiredEvicted ==
    [][idleTimeout > 0 /\ ret'.op = "Get" =>
        \A x \in Range(conns) :
            IF Expired(x) THEN x \notin Range(conns')
            ELSE x \in Range(conns') \cup Held'
    ]_vars

\* C7: once the adapter holds a connection (and no goroutine carries a
\* reference read before a Remove or Close), every Get of the adapter returns
\* that connection with isNewlyDialed = false and the pool's Get is not
\* invoked again, also for Gets that raced with the first one.
C7_OneAcquisition ==
    [][/\ ret'.op = "SingleGet" /\ ~ret'.err
       /\ cn # Nil
       /\ \A g \in Gs : g.pc = "fast" => g.seen = cn
       =>
       /\ ret'.cn = cn /\ ~ret'.isNew
       /\ cn' = cn
       /\ conns' = conns /\ size' = size
    ]_vars

C9_CloseReleasesOnce ==
    [][ret'.op = "SingleClose" =>
        /\ cn' = Nil
        /\ cn = Nil => conns' = conns /\ size' = size /\ ~ret'.err
        /\ cn # Nil /\ reusable =>
               conns' = <<cn>> \o conns /\ size' = size /\ ~ret'.err
        /\ cn # Nil /\ ~reusable => conns' = conns /\ size' = size - 1
    ]_vars

\* C9's case: a Close with reusable = false whose Remove returned an error.
C9_Witness ==
    /\ ret.op = "SingleClose" /\ ret.err
    /\ ~reusable /\ cn = Nil

\* C10: when Close has returned without error, Len() = 0 and liveCount = 0.
C10_ClosedIsEmpty ==
    ret.op = "Close" /\ ~ret.err => Len(conns) = 0 /\ size = 0

\* C10's case: Close returned without error while two connections were
\* checked out.
C10_Witness ==
    /\ ret.op = "Close" /\ ~ret.err
    /\ Cardinality(Held) = 2

\* C11: a connPool.Close in which a closeConn fails returns the error at that
\* element: the idle connections before it in the list, and no others, have
\* been closed, and the list and size are what they were before the call.
C11_CloseStopsAtFirstError ==
    [][ret'.op = "Close" /\ ret'.err
         => /\ conns' = conns
            /\ size' = size
            /\ \E k \in 1..Len(conns) :
                 /\ \A i \in 1..(k - 1) : conns[i] \in closed'
                 /\ \A i \in k..Len(conns) : conns[i] \notin closed']_vars

\* Close has failed at the second of three idle connections: one is closed.
C11_Witness ==
    /\ ret.op = "Close" /\ ret.err
    /\ Len(conns) = 3
    /\ closed = {conns[1]}

\* C12: reuse is last in, first out.  Put pushes the connection at the front
\* of the idle list; a Get that finds the list non-empty and nothing in it to
\* evict returns the front element as not new, takes it out of the list and
\* leaves size alone.
C12_ReuseIsLIFO ==
    [][/\ ret'.op = "Put"
           => \E g \in Gs : g.held # Nil /\ conns' = <<g.held>> \o conns
       /\ ret'.op = "Get" /\ conns # << >> /\ Sweep(conns) = conns
           => /\ ~ret'.isNew /\ ~ret'.err
              /\ Held' = Held \cup {Head(conns)}
              /\ Head(conns) \notin Held
              /\ conns' = Tail(conns)
              /\ size' = size]_vars

\* A Get has reused the front one of two idle connections, with a positive
\* idleTimeout and nothing evicted before.
C12_Witness ==
    /\ ret.op = "Get" /\ ~ret.isNew /\ ~ret.err
    /\ idleTimeout > 0
    /\ Len(conns) = 1 /\ Cardinality(Held) = 1 /\ size = 2

\* C13: singleConnPool.Put(x) and Remove(x) panic exactly when x is not p.cn,
\* and then p.cn and the pool are what they were; when x is p.cn, Put changes
\* neither p.cn nor the pool and Remove only sets p.cn to nil.
C13_PanicIffForeign ==
    [][/\ ret'.op = "panic"
           => /\ ret'.cn # cn
              /\ panicked'
              /\ UNCHANGED <<cn, conns, size, gs>>
       /\ ret'.op = "SinglePut"
           => /\ ret'.cn = cn
              /\ ~panicked'
              /\ UNCHANGED <<cn, conns, size, gs>>
       /\ ret'.op = "SingleRemove"
           => /\ ret'.cn = cn
              /\ ~panicked'
              /\ cn' = Nil
              /\ UNCHANGED <<conns, size, gs>>]_vars

\* Put or Remove has been called with a connection of the pool that is not
\* the one the singleConnPool holds.
C13_Witness ==
    /\ panicked /\ ret.op = "panic"
    /\ ret.cn # Nil /\ cn # Nil

\* C14: size is the number of connections checked out (held by a goroutine
\* that got them from Get and has not finished its Put or Remove) plus the
\* number in the idle list, in every state.
C14_SizeIsHeldPlusIdle == size = Cardinality(Held) + Len(conns)

\* Some Get is blocked in cond.Wait, no Get has been woken, and the idle list
\* is non-empty or size < maxSize.
Stranded == NumWaiting > 0 /\ NumWoken = 0 /\ ~MustWait

\* C15: with no Close and a fair scheduler, no Get stays blocked for ever
\* while the idle list is non-empty or size < maxSize: again and again no Get
\* is waiting or the pool is saturated.
C15_NoGetBlockedForever == []<>(NumWaiting = 0 \/ MustWait)

\* C15, amended: with no Close, the only step that leaves a Get blocked with
\* nobody woken while the idle list is non-empty or size < maxSize is the
\* return of a Get whose dial has failed; no Put, Remove or successful Get
\* does.
C15_OnlyDialFailureStrands ==
    [][~Stranded /\ Stranded' => ret'.op = "Get" /\ ret'.err]_vars

\* A woken Get's dial has failed and another Get is still blocked under a
\* pool that has room.
C15_Witness ==
    /\ Stranded
    /\ ret.op = "Get" /\ ret.err
    /\ size < maxSize

\* C16: Close wakes nobody: the goroutines blocked in Get before a Close are
\* blocked after it, and a blocked Get leaves cond.Wait only in a step in
\* which a Put or a Remove returns.
C16_CloseWakesNobody ==
    [][/\ ret'.op = "Close" => gs' = gs
       /\ NumWaiting' < NumWaiting => ret'.op \in {"Put", "Remove"}]_vars

\* Close has returned with a Get still blocked although size is 0.
C16_Witness ==
    /\ ret.op = "Close" /\ ~ret.err
    /\ NumWaiting >= 1
    /\ size = 0 /\ size < maxSize

\* C17: when singleConnPool.Close has returned, every connection that the
\* singleConnPool got from the pool has gone back to it: size counts only the
\* idle connections and those that the pool's direct callers hold.
C17_NothingLeftAfterClose ==
    ret.op = "SingleClose" => size = Len(conns) + Cardinality(Held)

\* C18: with no Close, a pool of which no connection is checked out does not
\* make a Get wait: the idle list is non-empty or size < maxSize.
C18_NoWaitWhenNothingOut == Held = {} => ~MustWait

\* C19: with a positive idleTimeout, the connection that a Get returns as
\* reused has not been idle for longer than idleTimeout.
C19_ReusedNotExpired ==
    [][idleTimeout > 0 /\ ret'.op = "Get" /\ ~ret'.isNew /\ ~ret'.err
         => \A x \in Held' \ Held : ~Expired(x)]_vars

\* C20: singleConnPool.Get does not return a nil connection with a nil error.
C20_GetNeverNilNil ==
    ret.op = "SingleGet" /\ ~ret.err => ret.cn # Nil

====
